---- MODULE Spec2Model ----
(***************************************************************************)
(* Model of DotfilesInstaller (lib/modules/dotfiles.py): the seven-step    *)
(* installation pipeline run by install(), over an abstract filesystem     *)
(* holding the three roots sourceRoot (HYPRDOTS_DOTFILES_DIR), stageRoot   *)
(* (USER_DOTFILES_DIR) and configRoot (USER_CONFIGS_DIR).                  *)
(*                                                                         *)
(* The primitives of includes.library (remove, copy, create_symlink,       *)
(* path_lexists) and the Spinner of includes.tui are not part of the       *)
(* sources at hand; they are modelled from their description.             *)
(***************************************************************************)
EXTENDS Integers, Sequences, FiniteSets, TLC

(* ------------------------------------------------------------------ *)
(* Component registry                                                 *)
(* ------------------------------------------------------------------ *)

\* How many components of the registry the model carries (the last ones,
\* in registry order, so that "tmux" is always among them).
NumComponents == 2

Registry ==
    << "hypr", "waybar", "rofi", "fish", "kitty", "neofetch", "fastfetch",
       "cava", "waypaper", "swaync", "btop", "wlogout", "atuin", "tmux",
       "starship.toml" >>

dotfiles_components ==
    SubSeq(Registry, Len(Registry) - NumComponents + 1, Len(Registry))

Comps == { dotfiles_components[i] : i \in 1..Len(dotfiles_components) }

\* Path constants (includes.paths), as the first element of a path.
HYPRDOTS_DOTFILES_DIR == <<"src">>
USER_DOTFILES_DIR == <<"stage">>
USER_CONFIGS_DIR == <<"config">>

source_dotfiles_components_paths ==
    [ i \in 1..Len(dotfiles_components) |->
        HYPRDOTS_DOTFILES_DIR \o <<dotfiles_components[i]>> ]

target_dotfiles_components_paths ==
    [ i \in 1..Len(dotfiles_components) |->
        USER_DOTFILES_DIR \o <<dotfiles_components[i]>> ]

TpmDir == USER_DOTFILES_DIR \o <<"tmux", "plugins", "tpm">>
LazyvimDir == USER_DOTFILES_DIR \o <<"nvim">>
LazyvimGitDir == LazyvimDir \o <<".git">>
NvimConfigDir == USER_CONFIGS_DIR \o <<"nvim">>
NvimBackupDir == USER_CONFIGS_DIR \o <<"nvim.backup">>

(* ------------------------------------------------------------------ *)
(* Abstract filesystem                                                *)
(* ------------------------------------------------------------------ *)

\* An entry directly under a root.  data stands for the contents of a
\* directory tree; tpm for what a directory holds at plugins/tpm;
\* target for where a symbolic link points.
NoEntry == [kind |-> "absent", data |-> "", target |-> <<>>, tpm |-> "absent"]
Dir(d, t) == [kind |-> "dir", data |-> d, target |-> <<>>, tpm |-> t]
Link(t) == [kind |-> "link", data |-> "", target |-> t, tpm |-> "absent"]

Nowhere == <<"nowhere">>

TreeNames == Comps \cup {"nvim"}
CfgNames == Comps \cup {"nvim", "nvim.backup"}

EmptyTree == [n \in TreeNames |-> NoEntry]
EmptyCfg == [n \in CfgNames |-> NoEntry]

VARIABLES
    fs,        \* the filesystem: roots (which root directories exist), src, stage, config
    fs0,       \* the filesystem when install() was called
    dry_run,   \* self.dry_run
    pc,        \* where install() stands
    result,    \* "none" while running, then "True", "False" or "raised"
    steps,     \* the steps started so far, with how each ended
    calls,     \* the calls made to remove, copy, create_symlink, rename, git clone
    log,       \* the structured log (logger.info / logger.error)
    sink,      \* what the Spinner handles were told
    spinner,   \* the open Spinner handle, or "none"
    closed     \* the Spinner handles closed so far

vars == <<fs, fs0, dry_run, pc, result, steps, calls, log, sink, spinner, closed>>

\* The part of the state the helpers below thread through a step.
World == [fs |-> fs, calls |-> calls, log |-> log, sink |-> sink, spinner |-> spinner]

Entry(f, p) == f[p[1]][p[2]]

\* Path.exists() for a link: does the target resolve?
Resolves(f, t) ==
    /\ Len(t) = 2
    /\ t[1] = "stage"
    /\ t[2] \in TreeNames
    /\ f.stage[t[2]].kind \in {"file", "dir"}

\* includes.library.path_lexists: the path exists or is a broken link.
path_lexists(f, p) ==
    IF Len(p) = 1 THEN f.roots[p[1]]
    ELSE IF Len(p) = 2 THEN Entry(f, p).kind # "absent"
    ELSE IF p = TpmDir THEN f.stage["tmux"].kind = "dir" /\ f.stage["tmux"].tpm # "absent"
    ELSE IF p = LazyvimGitDir THEN f.stage["nvim"].kind = "dir" /\ f.stage["nvim"].data = "lazyvim+git"
    ELSE FALSE

\* pathlib.Path.exists: follows symbolic links.
exists(f, p) ==
    IF Len(p) = 2
    THEN \/ Entry(f, p).kind \in {"file", "dir"}
         \/ Entry(f, p).kind = "link" /\ Resolves(f, Entry(f, p).target)
    ELSE path_lexists(f, p)

Delete(f, p) ==
    IF Len(p) = 1
    THEN [f EXCEPT !.roots[p[1]] = FALSE, ![p[1]] = [n \in DOMAIN f[p[1]] |-> NoEntry]]
    ELSE IF Len(p) = 2 THEN [f EXCEPT ![p[1]][p[2]] = NoEntry]
    ELSE IF p = TpmDir THEN [f EXCEPT !.stage["tmux"].tpm = "absent"]
    ELSE IF p = LazyvimGitDir THEN [f EXCEPT !.stage["nvim"].data = "lazyvim"]
    ELSE f

Call(w, op, args, ok) ==
    [w EXCEPT !.calls = Append(@, [op |-> op, args |-> args, ok |-> ok])]

Log(w, level, msg, names) ==
    [w EXCEPT !.log = Append(@, [level |-> level, msg |-> msg, names |-> names])]

\* spinner.update_text / spinner.error / spinner.success on the open handle
Tell(w, kind, msg, names) ==
    [w EXCEPT !.sink = Append(@, [handle |-> w.spinner, kind |-> kind,
                                   msg |-> msg, names |-> names])]

\* includes.library.remove(path) -> bool.  good: the operating system lets
\* the removal through.  Removing what is not there succeeds.
remove(w, p, good) ==
    IF ~path_lexists(w.fs, p)
    THEN [w |-> Call(w, "remove", <<p>>, TRUE), ok |-> TRUE]
    ELSE IF good
    THEN [w |-> [Call(w, "remove", <<p>>, TRUE) EXCEPT !.fs = Delete(w.fs, p)], ok |-> TRUE]
    ELSE [w |-> Log(Call(w, "remove", <<p>>, FALSE), "error", "library: remove failed", {p}),
          ok |-> FALSE]

(* ------------------------------------------------------------------ *)
(* Primitives and external tools                                      *)
(* ------------------------------------------------------------------ *)

\* includes.library.copy(source, destination): recursive copy, symbolic
\* links copied as links.  outcome "ok": the destination is the source tree;
\* otherwise the copy raises, leaving the destination untouched or holding
\* only part of the tree (here: the first component).
copy(w, outcome) ==
    LET w1 == Call(w, "copy", <<HYPRDOTS_DOTFILES_DIR, USER_DOTFILES_DIR>>,
                   outcome = "ok" /\ w.fs.roots["src"])
    IN  IF ~w.fs.roots["src"] THEN [w |-> w1, raised |-> TRUE]
        ELSE IF outcome = "ok"
        THEN [w |-> [w1 EXCEPT !.fs.roots["stage"] = TRUE, !.fs.stage = w.fs.src],
              raised |-> FALSE]
        ELSE IF outcome = "partial"
        THEN [w |-> [w1 EXCEPT !.fs.roots["stage"] = TRUE,
                               !.fs.stage[dotfiles_components[1]] =
                                   w.fs.src[dotfiles_components[1]]],
              raised |-> TRUE]
        ELSE [w |-> w1, raised |-> TRUE]

\* includes.library.create_symlink(source, target) -> bool.
create_symlink(w, s, t, good) ==
    LET cur == Entry(w.fs, t)
    IN  IF cur.kind = "link" /\ cur.target = s
        THEN [w |-> Call(w, "create_symlink", <<s, t>>, TRUE), ok |-> TRUE]
        ELSE IF cur.kind = "absent" /\ w.fs.roots[t[1]] /\ good
        THEN [w |-> [Call(w, "create_symlink", <<s, t>>, TRUE)
                        EXCEPT !.fs[t[1]][t[2]] = Link(s)],
              ok |-> TRUE]
        ELSE [w |-> Log(Call(w, "create_symlink", <<s, t>>, FALSE),
                        "error", "library: symlink failed", {t}),
              ok |-> FALSE]

\* Path.rename(target): os.rename of a directory.  It raises when the
\* destination is still there or when the operating system refuses.
rename(w, s, d, good) ==
    IF path_lexists(w.fs, d) \/ ~good
    THEN [w |-> Call(w, "rename", <<s, d>>, FALSE), raised |-> TRUE]
    ELSE [w |-> [Call(w, "rename", <<s, d>>, TRUE)
                    EXCEPT !.fs[d[1]][d[2]] = Entry(w.fs, s),
                           !.fs[s[1]][s[2]] = NoEntry],
          raised |-> FALSE]

\* run_command(["git", "clone", url, dest], check=True): raises when git
\* exits non-zero.  git refuses a destination that exists, and cannot
\* create it under something that is not a directory.
CloneCan(f, dest) ==
    /\ ~path_lexists(f, dest)
    /\ dest = TpmDir => f.stage["tmux"].kind \in {"absent", "dir"}

CloneInto(f, dest) ==
    IF dest = TpmDir
    THEN [f EXCEPT !.roots["stage"] = TRUE,
                   !.stage["tmux"] = IF @.kind = "dir" THEN [@ EXCEPT !.tpm = "clone"]
                                     ELSE Dir("", "clone")]
    ELSE [f EXCEPT !.roots["stage"] = TRUE,
                   !.stage["nvim"] = Dir("lazyvim+git", "absent")]

git_clone(w, dest, good) ==
    IF CloneCan(w.fs, dest) /\ good
    THEN [w |-> [Call(w, "git clone", <<dest>>, TRUE) EXCEPT !.fs = CloneInto(w.fs, dest)],
          raised |-> FALSE]
    ELSE [w |-> Call(w, "git clone", <<dest>>, FALSE), raised |-> TRUE]

(* ------------------------------------------------------------------ *)
(* The steps of the pipeline                                          *)
(* ------------------------------------------------------------------ *)

Ret(w, ok) == [w |-> w, ok |-> ok]

\* the loop of _validate_sources without its "return False"
RECURSIVE ValidateLoopNoReturn(_, _)
ValidateLoopNoReturn(w, k) ==
    IF k > Len(source_dotfiles_components_paths) THEN Ret(w, "True")
    ELSE LET i == source_dotfiles_components_paths[k]
         IN  IF ~path_lexists(w.fs, i)
             THEN ValidateLoopNoReturn(Tell(Log(w, "error", "Missing source", {i}),
                                            "error", "Missing source, exiting", {i}), k + 1)
             ELSE ValidateLoopNoReturn(w, k + 1)

RECURSIVE ValidateLoop(_, _)
ValidateLoop(w, k) ==
    IF k > Len(source_dotfiles_components_paths) THEN Ret(w, "True")
    ELSE LET i == source_dotfiles_components_paths[k]
         IN  IF ~path_lexists(w.fs, i)
             THEN Ret(Tell(Log(w, "error", "Missing source", {i}),
                           "error", "Missing source, exiting", {i}), "False")
             ELSE ValidateLoop(w, k + 1)

_validate_sources(w, dry) ==
    LET w1 == Tell(Log(w, "info", "Validating source dotfiles components", {}),
                   "update", "Validating source dotfiles components", {})
    IN  IF dry THEN Ret(w1, "True") ELSE ValidateLoop(w1, 1)

\* _copy_dotfiles clearing USER_CONFIGS_DIR where it should clear USER_DOTFILES_DIR
_copy_dotfiles_wrong_root(w, dry, goodRm, outcome) ==
    LET w1 == Tell(Log(w, "info", "Copying dotfiles", {USER_DOTFILES_DIR}),
                   "update", "Copying dotfiles", {})
        w2 == IF exists(w1.fs, USER_CONFIGS_DIR)
              THEN remove(w1, USER_CONFIGS_DIR, goodRm).w
              ELSE w1
        c  == copy(w2, outcome)
    IN  IF dry THEN Ret(w1, "True")
        ELSE IF c.raised
        THEN Ret(Tell(Log(c.w, "error", "Failed to copy dotfiles", {<<"dotfiles">>}),
                      "error", "Failed to copy dotfiles", {<<"dotfiles">>}), "False")
        ELSE Ret(c.w, "True")

\* _copy_dotfiles with an except branch that reports but does not return False
_copy_dotfiles_swallow(w, dry, goodRm, outcome) ==
    LET w1 == Tell(Log(w, "info", "Copying dotfiles", {USER_DOTFILES_DIR}),
                   "update", "Copying dotfiles", {})
        w2 == IF exists(w1.fs, USER_DOTFILES_DIR)
              THEN remove(w1, USER_DOTFILES_DIR, goodRm).w
              ELSE w1
        c  == copy(w2, outcome)
    IN  IF dry THEN Ret(w1, "True")
        ELSE IF c.raised
        THEN Ret(Tell(Log(c.w, "error", "Failed to copy dotfiles", {<<"dotfiles">>}),
                      "error", "Failed to copy dotfiles", {<<"dotfiles">>}), "True")
        ELSE Ret(c.w, "True")

_copy_dotfiles(w, dry, goodRm, outcome) ==
    LET w1 == Tell(Log(w, "info", "Copying dotfiles", {USER_DOTFILES_DIR}),
                   "update", "Copying dotfiles", {})
        w2 == IF exists(w1.fs, USER_DOTFILES_DIR)
              THEN remove(w1, USER_DOTFILES_DIR, goodRm).w
              ELSE w1
        c  == copy(w2, outcome)
    IN  IF dry THEN Ret(w1, "True")
        ELSE IF c.raised
        THEN Ret(Tell(Log(c.w, "error", "Failed to copy dotfiles", {<<"dotfiles">>}),
                      "error", "Failed to copy dotfiles", {<<"dotfiles">>}), "False")
        ELSE Ret(c.w, "True")

\* the loop of _verify_copy leaving at the first missing component
RECURSIVE VerifyLoopFirst(_, _, _)
VerifyLoopFirst(w, k, missing) ==
    IF k > Len(target_dotfiles_components_paths) THEN [w |-> w, missing |-> missing]
    ELSE LET i == target_dotfiles_components_paths[k]
         IN  IF ~path_lexists(w.fs, i)
             THEN [w |-> Log(w, "error", "Copied dotfile component is missing", {i}),
                   missing |-> Append(missing, i)]
             ELSE VerifyLoopFirst(w, k + 1, missing)

\* the loop of _verify_copy: r.missing is the list the code collects
RECURSIVE VerifyLoop(_, _, _)
VerifyLoop(w, k, missing) ==
    IF k > Len(target_dotfiles_components_paths) THEN [w |-> w, missing |-> missing]
    ELSE LET i == target_dotfiles_components_paths[k]
         IN  IF ~path_lexists(w.fs, i)
             THEN VerifyLoop(Log(w, "error", "Copied dotfile component is missing", {i}),
                             k + 1, Append(missing, i))
             ELSE VerifyLoop(w, k + 1, missing)

_verify_copy(w, dry) ==
    LET w1 == Log(w, "info", "Checking if copied successfully or not", {})
        r  == VerifyLoop(w1, 1, <<>>)
    IN  IF dry THEN Ret(w1, "True")
        ELSE IF r.missing # <<>>
        THEN Ret(Tell(r.w, "error", "Some dotfile components are missing, exiting", {}),
                 "False")
        ELSE Ret(r.w, "True")

\* the loop of _remove_existing_configs going on after a failed removal,
\* failing at the end
RECURSIVE RemoveLoopAll(_, _, _)
RemoveLoopAll(w, k, refused) ==
    IF k > Len(dotfiles_components) THEN Ret(w, "True")
    ELSE LET file == USER_CONFIGS_DIR \o <<dotfiles_components[k]>>
             r == remove(w, file, dotfiles_components[k] \notin refused)
             rest == RemoveLoopAll(r.w, k + 1, refused)
         IN  IF ~r.ok
             THEN Ret(Tell(rest.w, "error", "Failed to remove existing config", {file}), "False")
             ELSE rest

\* refused: the components whose configRoot entry the operating system
\* does not let go of
RECURSIVE RemoveLoop(_, _, _)
RemoveLoop(w, k, refused) ==
    IF k > Len(dotfiles_components) THEN Ret(w, "True")
    ELSE LET file == USER_CONFIGS_DIR \o <<dotfiles_components[k]>>
             r == remove(w, file, dotfiles_components[k] \notin refused)
         IN  IF ~r.ok
             THEN Ret(Tell(r.w, "error", "Failed to remove existing config", {file}), "False")
             ELSE RemoveLoop(r.w, k + 1, refused)

\* _remove_existing_configs without its dry_run guard
_remove_existing_configs_no_dry(w, dry, refused) ==
    RemoveLoop(Tell(Log(w, "info", "Removing existing configs", {}),
                    "update", "Removing existing configs", {}), 1, refused)

_remove_existing_configs(w, dry, refused) ==
    LET w1 == Tell(Log(w, "info", "Removing existing configs", {}),
                   "update", "Removing existing configs", {})
    IN  IF dry THEN Ret(w1, "True") ELSE RemoveLoop(w1, 1, refused)

\* the loop of _create_links reporting every failed link to the Spinner
RECURSIVE LinkLoopTelling(_, _, _, _)
LinkLoopTelling(w, k, refused, failed_links) ==
    IF k > Len(dotfiles_components) THEN [w |-> w, failed_links |-> failed_links]
    ELSE LET component == dotfiles_components[k]
             source == USER_DOTFILES_DIR \o <<component>>
             target == USER_CONFIGS_DIR \o <<component>>
             r == create_symlink(w, source, target, component \notin refused)
         IN  IF ~r.ok
             THEN LinkLoopTelling(Tell(Log(r.w, "error", "Failed to link", {source, target}),
                                       "error", "Failed to link", {source, target}),
                                  k + 1, refused, Append(failed_links, <<source, target>>))
             ELSE LinkLoopTelling(r.w, k + 1, refused, failed_links)

\* the loop of _create_links leaving at the first failed link
RECURSIVE LinkLoopShort(_, _, _, _)
LinkLoopShort(w, k, refused, failed_links) ==
    IF k > Len(dotfiles_components) THEN [w |-> w, failed_links |-> failed_links]
    ELSE LET component == dotfiles_components[k]
             source == USER_DOTFILES_DIR \o <<component>>
             target == USER_CONFIGS_DIR \o <<component>>
             r == create_symlink(w, source, target, component \notin refused)
         IN  IF ~r.ok
             THEN [w |-> Log(r.w, "error", "Failed to link", {source, target}),
                   failed_links |-> Append(failed_links, <<source, target>>)]
             ELSE LinkLoopShort(r.w, k + 1, refused, failed_links)

\* refused: the components whose link the operating system does not let
\* through; r.failed_links is the list the code collects
RECURSIVE LinkLoop(_, _, _, _)
LinkLoop(w, k, refused, failed_links) ==
    IF k > Len(dotfiles_components) THEN [w |-> w, failed_links |-> failed_links]
    ELSE LET component == dotfiles_components[k]
             source == USER_DOTFILES_DIR \o <<component>>
             target == USER_CONFIGS_DIR \o <<component>>
             r == create_symlink(w, source, target, component \notin refused)
         IN  IF ~r.ok
             THEN LinkLoop(Log(r.w, "error", "Failed to link", {source, target}),
                           k + 1, refused, Append(failed_links, <<source, target>>))
             ELSE LinkLoop(r.w, k + 1, refused, failed_links)

\* _create_links that undoes its links when one of them failed
_create_links_rollback(w, dry, refused) ==
    LET w1 == Tell(Log(w, "info", "Creating system links", {}),
                   "update", "Linking new dotfiles", {})
        r  == LinkLoop(w1, 1, refused, <<>>)
    IN  IF dry THEN Ret(w1, "True")
        ELSE IF r.failed_links # <<>>
        THEN Ret(Tell([r.w EXCEPT !.fs = w.fs],
                      "error", "Failed to create some links, exiting", {}), "False")
        ELSE Ret(r.w, "True")

\* _create_links that never looks at failed_links
_create_links_unchecked(w, dry, refused) ==
    LET w1 == Tell(Log(w, "info", "Creating system links", {}),
                   "update", "Linking new dotfiles", {})
    IN  IF dry THEN Ret(w1, "True") ELSE Ret(LinkLoop(w1, 1, refused, <<>>).w, "True")

_create_links(w, dry, refused) ==
    LET w1 == Tell(Log(w, "info", "Creating system links", {}),
                   "update", "Linking new dotfiles", {})
        r  == LinkLoop(w1, 1, refused, <<>>)
    IN  IF dry THEN Ret(w1, "True")
        ELSE IF r.failed_links # <<>>
        THEN Ret(Tell(r.w, "error", "Failed to create some links, exiting", {}), "False")
        ELSE Ret(r.w, "True")

_install_tpm(w, dry, goodRm, goodClone) ==
    LET w1 == Tell(Log(w, "info", "Installing TPM (Tmux Plugin Manager)", {}),
                   "update", "Installing TPM for tmux", {})
        w2 == IF exists(w1.fs, TpmDir) THEN remove(w1, TpmDir, goodRm).w ELSE w1
        c  == git_clone(w2, TpmDir, goodClone)
    IN  IF dry THEN Ret(w1, "True")
        ELSE IF c.raised
        THEN Ret(Tell(Log(c.w, "error", "Failed to install TPM", {<<"TPM">>, TpmDir}),
                      "error", "Failed to install TPM for tmux", {<<"TPM">>}), "False")
        ELSE Ret(Log(c.w, "info", "TPM installed successfully", {}), "True")

\* _install_lazyvim that links the live editor config to the clone
_install_lazyvim_linked(w, dry, flt) ==
    LET w1 == Tell(Log(w, "info", "Installing LazyVim", {}),
                   "update", "Installing LazyVim", {})
        w2 == IF exists(w1.fs, LazyvimDir) THEN remove(w1, LazyvimDir, flt.rmStage).w ELSE w1
        backup == exists(w2.fs, NvimConfigDir)
        w3 == IF exists(w2.fs, NvimBackupDir)
              THEN remove(w2, NvimBackupDir, flt.rmBackup).w
              ELSE w2
        rn == rename(w3, NvimConfigDir, NvimBackupDir, flt.rename)
        w4 == IF backup
              THEN Log(rn.w, "info", "Backed up existing nvim config", {NvimBackupDir})
              ELSE w2
        c  == git_clone(w4, LazyvimDir, flt.clone)
        w5 == IF exists(c.w.fs, LazyvimGitDir)
              THEN remove(c.w, LazyvimGitDir, flt.rmGit).w
              ELSE c.w
        w6 == create_symlink(w5, LazyvimDir, NvimConfigDir, TRUE).w
    IN  IF dry THEN Ret(w1, "True")
        ELSE IF backup /\ rn.raised THEN Ret(rn.w, "raised")
        ELSE IF c.raised
        THEN Ret(Tell(Log(c.w, "error", "Failed to install LazyVim", {<<"LazyVim">>, LazyvimDir}),
                      "error", "Failed to install LazyVim", {<<"LazyVim">>}), "False")
        ELSE Ret(Log(w6, "info", "LazyVim installed successfully", {}), "True")

\* flt: which of the operations of the step the operating system (or, for
\* the clone, git) lets through
_install_lazyvim(w, dry, flt) ==
    LET w1 == Tell(Log(w, "info", "Installing LazyVim", {}),
                   "update", "Installing LazyVim", {})
        w2 == IF exists(w1.fs, LazyvimDir) THEN remove(w1, LazyvimDir, flt.rmStage).w ELSE w1
        backup == exists(w2.fs, NvimConfigDir)
        w3 == IF exists(w2.fs, NvimBackupDir)
              THEN remove(w2, NvimBackupDir, flt.rmBackup).w
              ELSE w2
        rn == rename(w3, NvimConfigDir, NvimBackupDir, flt.rename)
        w4 == IF backup
              THEN Log(rn.w, "info", "Backed up existing nvim config", {NvimBackupDir})
              ELSE w2
        c  == git_clone(w4, LazyvimDir, flt.clone)
        w5 == IF exists(c.w.fs, LazyvimGitDir)
              THEN remove(c.w, LazyvimGitDir, flt.rmGit).w
              ELSE c.w
    IN  IF dry THEN Ret(w1, "True")
        ELSE IF backup /\ rn.raised THEN Ret(rn.w, "raised")
        ELSE IF c.raised
        THEN Ret(Tell(Log(c.w, "error", "Failed to install LazyVim", {<<"LazyVim">>, LazyvimDir}),
                      "error", "Failed to install LazyVim", {<<"LazyVim">>}), "False")
        ELSE Ret(Log(w5, "info", "LazyVim installed successfully", {}), "True")

(* ------------------------------------------------------------------ *)
(* install()                                                          *)
(* ------------------------------------------------------------------ *)

StepNames ==
    << "ValidateSources", "CopyDotfiles", "VerifyCopy", "RemoveExistingConfigs",
       "CreateLinks", "InstallTpm", "InstallLazyVim" >>

\* install() without its "if not ...: return False": it goes on after a failed step
StepDoneNoAbort(name, r, next) ==
    /\ fs' = r.w.fs
    /\ calls' = r.w.calls
    /\ log' = r.w.log
    /\ sink' = r.w.sink
    /\ steps' = Append(steps, [step |-> name, ok |-> r.ok])
    /\ pc' = next
    /\ UNCHANGED <<result, spinner, closed, fs0, dry_run>>

\* install() with handles opened and closed by hand, the close forgotten on
\* the early returns
StepDoneNoClose(name, r, next) ==
    /\ fs' = r.w.fs
    /\ calls' = r.w.calls
    /\ log' = r.w.log
    /\ sink' = r.w.sink
    /\ steps' = Append(steps, [step |-> name, ok |-> r.ok])
    /\ IF r.ok = "True"
       THEN /\ pc' = next
            /\ UNCHANGED result
       ELSE /\ pc' = "done"
            /\ result' = r.ok
    /\ UNCHANGED <<spinner, closed, fs0, dry_run>>

\* One step of install() has run with outcome r: on success install goes on
\* to next; otherwise it leaves the with block (which closes the handle)
\* returning False, or with the exception the step raised.
StepDone(name, r, next) ==
    /\ fs' = r.w.fs
    /\ calls' = r.w.calls
    /\ log' = r.w.log
    /\ sink' = r.w.sink
    /\ steps' = Append(steps, [step |-> name, ok |-> r.ok])
    /\ IF r.ok = "True"
       THEN /\ pc' = next
            /\ UNCHANGED <<result, spinner, closed>>
       ELSE /\ pc' = "done"
            /\ result' = r.ok
            /\ spinner' = "none"
            /\ closed' = Append(closed, spinner)
    /\ UNCHANGED <<fs0, dry_run>>

\* install(), up to the first with block
Install ==
    /\ pc = "start"
    /\ log' = Append(log, [level |-> "info", msg |-> "Dotfiles installer started", names |-> {}])
    /\ sink' = sink \o << [handle |-> "none", kind |-> "header",
                           msg |-> "Installing dotfiles.", names |-> {}],
                          [handle |-> "dotfiles", kind |-> "open",
                           msg |-> "Installing dotfiles...", names |-> {}] >>
    /\ spinner' = "dotfiles"
    /\ pc' = "validate"
    /\ UNCHANGED <<fs, fs0, dry_run, result, steps, calls, closed>>

ValidateSources ==
    /\ pc = "validate"
    /\ StepDone("ValidateSources", _validate_sources(World, dry_run), "copy")

CopyDotfiles ==
    /\ pc = "copy"
    /\ \E goodRm \in BOOLEAN, outcome \in {"ok", "untouched", "partial"} :
          StepDone("CopyDotfiles", _copy_dotfiles(World, dry_run, goodRm, outcome), "verify")

VerifyCopy ==
    /\ pc = "verify"
    /\ StepDone("VerifyCopy", _verify_copy(World, dry_run), "remove")

RemoveExistingConfigs ==
    /\ pc = "remove"
    /\ \E refused \in SUBSET Comps :
          StepDone("RemoveExistingConfigs",
                   _remove_existing_configs(World, dry_run, refused), "links")

CreateLinks ==
    /\ pc = "links"
    /\ \E refused \in SUBSET Comps :
          StepDone("CreateLinks", _create_links(World, dry_run, refused), "installed")

\* sleep(1); spinner.success(...); end of the first with block, start of the second
DotfilesInstalled ==
    /\ pc = "installed"
    /\ sink' = sink \o << [handle |-> spinner, kind |-> "success",
                           msg |-> "Dotfiles installed successfully!", names |-> {}],
                          [handle |-> "thirdparty", kind |-> "open",
                           msg |-> "Installing third-party dots...", names |-> {}] >>
    /\ closed' = Append(closed, spinner)
    /\ spinner' = "thirdparty"
    /\ pc' = "tpm"
    /\ UNCHANGED <<fs, fs0, dry_run, result, steps, calls, log>>

InstallTpm ==
    /\ pc = "tpm"
    /\ \E goodRm \in BOOLEAN, goodClone \in BOOLEAN :
          StepDone("InstallTpm", _install_tpm(World, dry_run, goodRm, goodClone), "lazyvim")

Faults == [rmStage : BOOLEAN, rmBackup : BOOLEAN, rename : BOOLEAN,
           clone : BOOLEAN, rmGit : BOOLEAN]

InstallLazyVim ==
    /\ pc = "lazyvim"
    /\ \E flt \in Faults :
          StepDone("InstallLazyVim", _install_lazyvim(World, dry_run, flt), "return")

\* end of the second with block; print(); return True
Return ==
    /\ pc = "return"
    /\ closed' = Append(closed, spinner)
    /\ spinner' = "none"
    /\ result' = "True"
    /\ pc' = "done"
    /\ UNCHANGED <<fs, fs0, dry_run, steps, calls, log, sink>>

(* ------------------------------------------------------------------ *)
(* Initial states                                                     *)
(* ------------------------------------------------------------------ *)

SrcEntries(n) ==
    IF n = "tmux" THEN {NoEntry, Link(Nowhere), Dir("new", "absent"), Dir("new", "stale")}
    ELSE IF n = "nvim" THEN {NoEntry, Dir("new", "absent")}
    ELSE {NoEntry, Link(Nowhere), Dir("new", "absent")}

SrcTrees == { t \in [TreeNames -> UNION { SrcEntries(n) : n \in TreeNames }] :
                 \A n \in TreeNames : t[n] \in SrcEntries(n) }

StaleTree == [n \in TreeNames |-> Dir("old", IF n = "tmux" THEN "stale" ELSE "absent")]

CfgEntries(n) ==
    IF n = "nvim" THEN {NoEntry, Dir("user", "absent")}
    ELSE IF n = "nvim.backup" THEN {NoEntry, Dir("oldbackup", "absent")}
    ELSE {NoEntry, Dir("user", "absent"), Link(USER_DOTFILES_DIR \o <<n>>)}

CfgTrees == { t \in [CfgNames -> UNION { CfgEntries(n) : n \in CfgNames }] :
                 \A n \in CfgNames : t[n] \in CfgEntries(n) }

\* The filesystems install() is started on: each root absent, or present
\* with a tree under it (for stageRoot, the tree an earlier run left).
FsInit ==
    { [roots |-> [src |-> s[1], stage |-> g[1], config |-> c[1]],
       src |-> s[2], stage |-> g[2], config |-> c[2]] :
        s \in ({<<FALSE, EmptyTree>>} \cup { <<TRUE, t>> : t \in SrcTrees }),
        g \in {<<FALSE, EmptyTree>>, <<TRUE, StaleTree>>},
        c \in ({<<FALSE, EmptyCfg>>} \cup { <<TRUE, t>> : t \in CfgTrees }) }

\* The filesystems a single step is run on: as FsInit, with staged trees
\* that lack components and configRoot entries of every kind.
StepSrcTrees ==
    { [n \in TreeNames |-> IF n \in Comps \ gone THEN Dir("new", "absent") ELSE NoEntry] :
        gone \in {{}, {dotfiles_components[1]}} }

StepStageTrees ==
    { [n \in TreeNames |-> IF n \in have THEN Dir("new", "absent") ELSE NoEntry] :
        have \in SUBSET Comps }

StepCfgTrees == { t \in CfgTrees : t["nvim"] = NoEntry /\ t["nvim.backup"] = NoEntry }

FsStep ==
    { [roots |-> [src |-> TRUE, stage |-> g[1], config |-> TRUE],
       src |-> s, stage |-> g[2], config |-> c] :
        s \in StepSrcTrees,
        g \in ({<<FALSE, EmptyTree>>} \cup { <<TRUE, t>> : t \in StepStageTrees }),
        c \in StepCfgTrees }

StepStarts == {"start", "validate", "copy", "verify", "remove", "links", "tpm", "lazyvim"}

InitRun(start) ==
    /\ fs0 = fs
    /\ dry_run \in BOOLEAN
    /\ pc = start
    /\ result = "none"
    /\ steps = <<>>
    /\ calls = <<>>
    /\ log = <<>>
    /\ sink = <<>>
    /\ spinner = IF start = "start" THEN "none"
                 ELSE IF start \in {"tpm", "lazyvim"} THEN "thirdparty"
                 ELSE "dotfiles"
    /\ closed = <<>>

Init ==
    /\ fs \in FsInit
    /\ InitRun("start")

Next ==
    \/ Install
    \/ ValidateSources
    \/ CopyDotfiles
    \/ VerifyCopy
    \/ RemoveExistingConfigs
    \/ CreateLinks
    \/ DotfilesInstalled
    \/ InstallTpm
    \/ InstallLazyVim
    \/ Return

Spec == Init /\ [][Next]_vars

\* A step of the pipeline run on its own: install() entered at any of its
\* steps, on any filesystem of FsStep.
InitStep ==
    /\ fs \in FsStep
    /\ \E start \in StepStarts : InitRun(start)

SpecStep == InitStep /\ [][Next]_vars

(* ------------------------------------------------------------------ *)
(* Properties                                                         *)
(* ------------------------------------------------------------------ *)

NSteps == Len(StepNames)

Ran(name) == \E i \in 1..Len(steps) : steps[i].step = name
Outcome(name) == steps[CHOOSE i \in 1..Len(steps) : steps[i].step = name].ok

\* C1: the seven steps are started only in the order ValidateSources,
\* CopyDotfiles, VerifyCopy, RemoveExistingConfigs, CreateLinks, InstallTpm,
\* InstallLazyVim; once a step has returned failure no later step is started
\* and install returns False; install returns True only if all seven steps
\* returned success.
C1_FailFastChain ==
    /\ Len(steps) <= NSteps
    /\ \A i \in 1..Len(steps) : steps[i].step = StepNames[i]
    /\ \A i \in 1..Len(steps) :
          steps[i].ok = "False" => (i = Len(steps) /\ result = "False" /\ pc = "done")
    /\ \A i \in 1..Len(steps) : i < Len(steps) => steps[i].ok = "True"
    /\ result = "True" =>
          (Len(steps) = NSteps /\ \A i \in 1..NSteps : steps[i].ok = "True")
    /\ result = "False" => (steps # <<>> /\ steps[Len(steps)].ok = "False")

\* a run stopped by the failure of its fifth step
C1_Witness ==
    /\ result = "False"
    /\ Len(steps) = 5
    /\ steps[5] = [step |-> "CreateLinks", ok |-> "False"]

StagePath(c) == USER_DOTFILES_DIR \o <<c>>
ConfigPath(c) == USER_CONFIGS_DIR \o <<c>>

\* C2 as stated: after install returned True, every configRoot/c is a
\* symbolic link to stageRoot/c and stageRoot/c exists.
C2_Original ==
    result = "True" =>
        \A c \in Comps :
            /\ Entry(fs, ConfigPath(c)) = Link(StagePath(c))
            /\ exists(fs, StagePath(c))

\* C2 amended: after a non-dry install returned True, every configRoot/c is
\* a symbolic link to stageRoot/c, and stageRoot/c exists or is a broken
\* symbolic link (copied as such from sourceRoot/c).
C2_LinkedAfterSuccess ==
    (result = "True" /\ ~dry_run) =>
        \A c \in Comps :
            /\ Entry(fs, ConfigPath(c)) = Link(StagePath(c))
            /\ path_lexists(fs, StagePath(c))

\* a successful run that replaced a user directory by a link to a staged
\* component which is itself a broken link
C2_Witness ==
    /\ result = "True"
    /\ ~dry_run
    /\ \E c \in Comps :
          /\ fs0.config[c] = Dir("user", "absent")
          /\ fs.config[c] = Link(StagePath(c))
          /\ fs.stage[c] = Link(Nowhere)

C4_DryRunPurity ==
    dry_run =>
        /\ fs = fs0
        /\ calls = <<>>
        /\ result \in {"none", "True"}
        /\ \A i \in 1..Len(steps) : steps[i].ok = "True"
        /\ pc = "done" => (result = "True" /\ Len(steps) = NSteps)

\* a dry run that returned True with none of the three roots present
C4_Witness ==
    /\ dry_run
    /\ result = "True"
    /\ ~fs0.roots["src"] /\ ~fs0.roots["stage"] /\ ~fs0.roots["config"]
    /\ Len(steps) = NSteps

MissingSrc(f) ==
    { k \in 1..Len(source_dotfiles_components_paths) :
        ~path_lexists(f, source_dotfiles_components_paths[k]) }

FirstMissingSrc(f) ==
    source_dotfiles_components_paths[
        CHOOSE k \in MissingSrc(f) : \A j \in MissingSrc(f) : k <= j]

\* C5: in a non-dry run with a component whose sourceRoot/name is neither
\* there nor a broken link, ValidateSources reports a missing source naming
\* that path (in the sink and in the log), no later step runs, install
\* returns False and the filesystem stays as it was before install.
C5_MissingSourceStopsAll ==
    (~dry_run /\ MissingSrc(fs0) # {}) =>
        /\ fs = fs0
        /\ calls = <<>>
        /\ Len(steps) <= 1
        /\ pc \in {"start", "validate", "done"}
        /\ pc = "done" =>
              /\ steps = << [step |-> "ValidateSources", ok |-> "False"] >>
              /\ result = "False"
              /\ \E i \in 1..Len(sink) :
                    /\ sink[i].kind = "error"
                    /\ sink[i].names = {FirstMissingSrc(fs0)}
              /\ \E i \in 1..Len(log) :
                    /\ log[i].level = "error"
                    /\ log[i].names = {FirstMissingSrc(fs0)}

\* a run stopped by ValidateSources with one source of several missing and
\* the stage root still not created
C5_Witness ==
    /\ ~dry_run
    /\ pc = "done"
    /\ Cardinality(MissingSrc(fs0)) = 1
    /\ Len(source_dotfiles_components_paths) > 1
    /\ ~fs.roots["stage"]
    /\ Outcome("ValidateSources") = "False"

\* C6 as stated: no fault escapes install; every step whose operation
\* fails ends in a False result, and install ends by returning a boolean.
C6_NoFaultEscapes ==
    /\ result # "raised"
    /\ \A i \in 1..Len(steps) : steps[i].ok \in {"True", "False"}

CompAt(k) == dotfiles_components[k]

LinkCalls == SelectSeq(calls, LAMBDA c : c.op = "create_symlink")

\* C7: a non-dry CreateLinks calls create_symlink(stageRoot/c, configRoot/c)
\* exactly once for every component, in registry order, whatever failed
\* before; it returns failure exactly when one of the calls failed; and
\* every component whose call succeeded is linked, also when the step fails.
C7_LinksNoShortCircuit ==
    (Ran("CreateLinks") /\ ~dry_run) =>
        /\ Len(LinkCalls) = Len(dotfiles_components)
        /\ \A k \in 1..Len(LinkCalls) :
              /\ LinkCalls[k].args = <<StagePath(CompAt(k)), ConfigPath(CompAt(k))>>
              /\ LinkCalls[k].ok => fs.config[CompAt(k)] = Link(StagePath(CompAt(k)))
        /\ Outcome("CreateLinks") \in {"True", "False"}
        /\ Outcome("CreateLinks") = "False" <=> \E k \in 1..Len(LinkCalls) : ~LinkCalls[k].ok

\* CreateLinks failed on a target occupied by a directory, and a later
\* component got its link all the same
C7_Witness ==
    /\ ~dry_run
    /\ Ran("CreateLinks")
    /\ Outcome("CreateLinks") = "False"
    /\ \E j, k \in 1..Len(LinkCalls) :
          /\ j < k
          /\ ~LinkCalls[j].ok
          /\ fs.config[CompAt(j)] = Dir("user", "absent")
          /\ LinkCalls[k].ok
          /\ fs0.config[CompAt(k)] = NoEntry
          /\ fs.config[CompAt(k)] = Link(StagePath(CompAt(k)))

RemoveCalls ==
    SelectSeq(calls, LAMBDA c : c.op = "remove" /\ c.args[1] \in { ConfigPath(n) : n \in Comps })

\* C8: a non-dry RemoveExistingConfigs calls remove(configRoot/c) in registry
\* order; at the first call returning false it reports the removal failure
\* naming that path, returns failure and calls remove for no later
\* component; with no failing call it has called remove for every component
\* and returns success.
C8_RemoveShortCircuits ==
    (Ran("RemoveExistingConfigs") /\ ~dry_run) =>
        /\ Len(RemoveCalls) \in 1..Len(dotfiles_components)
        /\ \A k \in 1..Len(RemoveCalls) :
              /\ RemoveCalls[k].args = <<ConfigPath(CompAt(k))>>
              /\ k < Len(RemoveCalls) => RemoveCalls[k].ok
        /\ IF ~RemoveCalls[Len(RemoveCalls)].ok
           THEN /\ Outcome("RemoveExistingConfigs") = "False"
                /\ \E i \in 1..Len(sink) :
                      /\ sink[i].kind = "error"
                      /\ sink[i].msg = "Failed to remove existing config"
                      /\ sink[i].names = {ConfigPath(CompAt(Len(RemoveCalls)))}
           ELSE /\ Outcome("RemoveExistingConfigs") = "True"
                /\ Len(RemoveCalls) = Len(dotfiles_components)

\* the removal of the first component failed and the next component, which
\* has a configRoot entry, was left alone
C8_Witness ==
    /\ ~dry_run
    /\ Ran("RemoveExistingConfigs")
    /\ Outcome("RemoveExistingConfigs") = "False"
    /\ Len(RemoveCalls) = 1
    /\ Len(dotfiles_components) > 1
    /\ fs.config[CompAt(2)] = Dir("user", "absent")

MissingStage(f) ==
    { k \in 1..Len(target_dotfiles_components_paths) :
        ~path_lexists(f, target_dotfiles_components_paths[k]) }

VerifyErrors ==
    SelectSeq(log, LAMBDA e : e.level = "error" /\ e.msg = "Copied dotfile component is missing")

\* C9: a non-dry VerifyCopy fails exactly when some stageRoot/c is missing,
\* and what it reports on failure (one error entry of the log per component)
\* names every missing component, in registry order, not only the first.
C9_VerifyReportsAllMissing ==
    (Ran("VerifyCopy") /\ ~dry_run) =>
        /\ Outcome("VerifyCopy") \in {"True", "False"}
        /\ Outcome("VerifyCopy") = "False" <=> MissingStage(fs) # {}
        /\ Outcome("VerifyCopy") = "False" =>
              /\ Len(VerifyErrors) = Cardinality(MissingStage(fs))
              /\ \A k \in MissingStage(fs) :
                    \E j \in 1..Len(VerifyErrors) :
                        VerifyErrors[j].names = {target_dotfiles_components_paths[k]}
              /\ \A i, j \in 1..Len(VerifyErrors) :
                    i < j => \E a, b \in MissingStage(fs) :
                                /\ a < b
                                /\ VerifyErrors[i].names = {target_dotfiles_components_paths[a]}
                                /\ VerifyErrors[j].names = {target_dotfiles_components_paths[b]}
              /\ \E i \in 1..Len(sink) :
                    sink[i].kind = "error" /\ sink[i].handle = "dotfiles"

\* VerifyCopy failed with more than one staged component missing
C9_Witness ==
    /\ ~dry_run
    /\ Ran("VerifyCopy")
    /\ Outcome("VerifyCopy") = "False"
    /\ Cardinality(MissingStage(fs)) >= 2
    /\ Len(VerifyErrors) >= 2

\* C10 as stated: whenever a step fails, the failure is told to the sink
\* (report-error) with a message naming the offending path or resource, and
\* logged at error level with the same detail.
C10_FailureSurfacedTwice ==
    \A i \in 1..Len(steps) :
        steps[i].ok # "True" =>
            \E j \in 1..Len(sink) :
                /\ sink[j].kind = "error"
                /\ sink[j].names # {}
                /\ \E k \in 1..Len(log) :
                      /\ log[k].level = "error"
                      /\ sink[j].names \subseteq log[k].names

\* a remove(p) that returned false was made before call number i
RemoveFailedBefore(p, i) ==
    \E j \in 1..(i - 1) :
        calls[j] = [op |-> "remove", args |-> <<p>>, ok |-> FALSE]

\* C11 as stated: when both configRoot/nvim and configRoot/nvim.backup exist
\* as InstallLazyVim runs (non-dry), the rename does not meet the previous
\* backup, and once the step has renamed, configRoot/nvim.backup holds what
\* configRoot/nvim held and the old backup is gone.
C11_BackupCollision ==
    (~dry_run /\ Ran("InstallLazyVim")
        /\ fs0.config["nvim"].kind = "dir" /\ fs0.config["nvim.backup"].kind = "dir") =>
        \A i \in 1..Len(calls) :
            calls[i].op = "rename" =>
                /\ calls[i].args = <<NvimConfigDir, NvimBackupDir>>
                /\ ~RemoveFailedBefore(NvimBackupDir, i)
                /\ calls[i].ok =>
                      /\ fs.config["nvim.backup"] = fs0.config["nvim"]
                      /\ fs.config["nvim"] = NoEntry

\* C12 as stated: whenever InstallTpm or InstallLazyVim invokes git clone,
\* the destination does not exist, also when the remove before it returned
\* false.
C12_ClonePrecondition ==
    \A i \in 1..Len(calls) :
        calls[i].op = "git clone" => ~RemoveFailedBefore(calls[i].args[1], i)

\* C14 as stated: whenever CopyDotfiles invokes copy(sourceRoot, stageRoot),
\* stageRoot does not exist, also when the remove(stageRoot) before it
\* returned false.
C14_CopyCleanSlate ==
    \A i \in 1..Len(calls) :
        calls[i].op = "copy" => ~RemoveFailedBefore(USER_DOTFILES_DIR, i)

\* the handles acquired so far, in order
Acquired ==
    LET opens == SelectSeq(sink, LAMBDA e : e.kind = "open")
    IN  [i \in 1..Len(opens) |-> opens[i].handle]

\* C13: every Spinner handle that was acquired is closed when install ends,
\* whether its steps succeeded, returned failure or raised; at most one
\* handle is open at a time; the third-party handle is acquired only after
\* the dotfiles handle was closed.
C13_SpinnerFinalized ==
    /\ Len(closed) <= Len(Acquired)
    /\ closed = SubSeq(Acquired, 1, Len(closed))
    /\ Len(Acquired) - Len(closed) = (IF spinner = "none" THEN 0 ELSE 1)
    /\ spinner # "none" => spinner = Acquired[Len(Acquired)]
    /\ Acquired \in { <<>>, <<"dotfiles">>, <<"dotfiles", "thirdparty">> }
    /\ Len(Acquired) = 2 => (Len(closed) >= 1 /\ closed[1] = "dotfiles")
    /\ pc = "done" => (spinner = "none" /\ closed = Acquired /\ Acquired # <<>>)

\* install ended by the exception of InstallLazyVim, both handles closed
C13_Witness ==
    /\ pc = "done"
    /\ result = "raised"
    /\ closed = <<"dotfiles", "thirdparty">>
    /\ spinner = "none"

\* the create_symlink call made for component c succeeded
Linked(c) ==
    \E k \in 1..Len(LinkCalls) :
        LinkCalls[k].args[2] = ConfigPath(c) /\ LinkCalls[k].ok

\* C15: nothing is rolled back.  When a step of a non-dry run fails, what
\* the steps before it did stays: past VerifyCopy the staged copy is in
\* place; when CreateLinks fails the staged copy is still the copy of step 2
\* and every component's configRoot entry is gone as step 4 left it, or is
\* the link step 5 made; when a bootstrap step fails every link is in place.
C15_NoRollback ==
    (~dry_run /\ result \in {"False", "raised"}) =>
        /\ Len(steps) >= 4 =>
              /\ fs.roots["stage"]
              /\ \A c \in Comps : path_lexists(fs, StagePath(c))
        /\ Len(steps) = 5 =>
              /\ fs.stage = fs0.src
              /\ \A c \in Comps :
                    fs.config[c] = IF Linked(c) THEN Link(StagePath(c)) ELSE NoEntry
        /\ Len(steps) >= 6 =>
              \A c \in Comps : fs.config[c] = Link(StagePath(c))

\* the mixed state: CreateLinks failed, one component that had a directory
\* in configRoot is now a link, another one has nothing left
C15_Witness ==
    /\ ~dry_run
    /\ result = "False"
    /\ Len(steps) = 5
    /\ \E c, d \in Comps :
          /\ fs0.config[c] = Dir("user", "absent")
          /\ fs0.config[d] = Dir("user", "absent")
          /\ fs.config[c] = Link(StagePath(c))
          /\ fs.config[d] = NoEntry
          /\ fs.stage = fs0.src

\* the filesystem apart from what lies under stageRoot
OutsideStage(f) == [src |-> f.src, config |-> f.config,
                    srcRoot |-> f.roots["src"], cfgRoot |-> f.roots["config"]]

\* the filesystem apart from configRoot/n for the names n of S
OutsideConfig(f, S) ==
    [src |-> f.src, stage |-> f.stage, roots |-> f.roots,
     config |-> [n \in CfgNames \ S |-> f.config[n]]]

\* the filesystem apart from stageRoot/nvim, configRoot/nvim and
\* configRoot/nvim.backup
OutsideNvim(f) ==
    [src |-> f.src, roots |-> f.roots,
     stage |-> [n \in TreeNames \ {"nvim"} |-> f.stage[n]],
     config |-> [n \in Comps |-> f.config[n]]]

\* the step taken by the transition at hand, or "none"
StepTaken == IF Len(steps') > Len(steps) THEN steps'[Len(steps')].step ELSE "none"

Renamed ==
    \E i \in 1..Len(calls) :
        calls[i] = [op |-> "rename", args |-> <<NvimConfigDir, NvimBackupDir>>, ok |-> TRUE]

StarterKit(e) == e.kind = "dir" /\ e.data \in {"lazyvim", "lazyvim+git"}

\* C17: the pipeline never creates an entry at configRoot/nvim (nvim is no
\* component, CreateLinks does not link it): what is there is what was there
\* before, or nothing.  After a non-dry run in which InstallLazyVim renamed
\* configRoot/nvim, configRoot/nvim is absent whether or not the clone
\* succeeded; the cloned starter kit is found at stageRoot/nvim only.
C17_NvimNeverLinked ==
    /\ "nvim" \notin Comps
    /\ fs.config["nvim"] \in {fs0.config["nvim"], NoEntry}
    /\ (~dry_run /\ Renamed) =>
          /\ fs.config["nvim"] = NoEntry
          /\ fs.config["nvim.backup"] = fs0.config["nvim"]
    /\ \A n \in CfgNames :
          ~StarterKit(fs.config[n]) /\ fs.config[n] # Link(LazyvimDir)
    /\ \A n \in TreeNames \ {"nvim"} : ~StarterKit(fs.stage[n])
    /\ (~dry_run /\ result = "True") => StarterKit(fs.stage["nvim"])

\* the live editor config was renamed and the clone then failed
C17_Witness ==
    /\ ~dry_run
    /\ Renamed
    /\ Outcome("InstallLazyVim") = "False"
    /\ fs0.config["nvim"] = Dir("user", "absent")
    /\ fs.config["nvim"] = NoEntry
    /\ fs.stage["nvim"] = NoEntry

SinkAt(kind) == { i \in 1..Len(sink) : sink[i].kind = kind }

FirstFiveSucceeded ==
    /\ Len(steps) >= 5
    /\ \A i \in 1..5 : steps[i].ok = "True"

\* C18: report-success is issued on the dotfiles handle exactly when steps
\* 1-5 all returned success (and the first with block has gone past them),
\* never after a report-error on that handle; and whenever install returns
\* False exactly one report-error was issued, on the handle that was open
\* when the failing step ran.
C18_SuccessAndErrorReports ==
    /\ \A i \in SinkAt("success") : sink[i].handle = "dotfiles" /\ FirstFiveSucceeded
    /\ Cardinality(SinkAt("success")) <= 1
    /\ (FirstFiveSucceeded /\ pc # "installed") => SinkAt("success") # {}
    /\ \A i \in SinkAt("error"), j \in SinkAt("success") :
          sink[i].handle = "dotfiles" => ~(i < j)
    /\ SinkAt("success") # {} => \A i \in SinkAt("error") : sink[i].handle # "dotfiles"
    /\ result = "False" =>
          /\ Cardinality(SinkAt("error")) = 1
          /\ \A i \in SinkAt("error") :
                sink[i].handle = (IF Len(steps) <= 5 THEN "dotfiles" ELSE "thirdparty")
    /\ result \in {"none", "True"} => SinkAt("error") = {}

\* install returned False at InstallTpm: success was reported on the dotfiles
\* handle, then one error on the third-party handle
C18_Witness ==
    /\ result = "False"
    /\ Len(steps) = 6
    /\ \E i \in SinkAt("success"), j \in SinkAt("error") :
          /\ i < j
          /\ sink[i].handle = "dotfiles"
          /\ sink[j].handle = "thirdparty"

====
